---- MODULE Spec2Model ----
(***************************************************************************)
(* Model of the cross-validation core of spatio-temporal-brain:            *)
(*   - merge_y_and_others          (src/utils.py, lines 123-126)           *)
(*   - StratifiedGroupKFold.split  (src/utils.py, lines 203-251)           *)
(*   - the grid / epoch loop of main_loop (src/01_pyg_hcp.py, 278-428)     *)
(*   - the grid / epoch loop of src/encoders/encoders.py, lines 282-360    *)
(*   - get_freer_gpu, free_gpu_info (src/utils.py, lines 77-120)           *)
(*                                                                         *)
(* Python indices are 0-based; a Python list x is the sequence whose       *)
(* element x[i] sits at position i + 1.  Count vectors (numpy arrays of    *)
(* length labels_num) are functions over 0 .. labels_num - 1.              *)
(*                                                                         *)
(* Floating point.  np.std / np.mean are evaluated in fixed point with     *)
(* unit 1 / SCALE.  For every input inside the bounds below, and inside    *)
(* the bounds raised by one, this arithmetic selects the same sort order   *)
(* and the same folds as IEEE double evaluation of the source (compared    *)
(* exhaustively outside TLC).  From 4 folds on, and from 5 samples in 3    *)
(* folds on, rounding in double precision separates scores that are equal  *)
(* as real numbers; the model does not cover those sizes.                  *)
(***************************************************************************)
EXTENDS Integers, Sequences, FiniteSets, TLC

\* ------------------------------------------------------------------ bounds
MaxN == 3          \* samples per call of split / merge_y_and_others
MaxLabel == 1      \* labels are 0 .. MaxLabel
MaxSplits == 2     \* n_splits is 0 .. MaxSplits

VARIABLES
    \* --- StratifiedGroupKFold ---
    y,                    \* labels, one per sample
    groups,               \* group id, one per sample
    n_splits,             \* self.n_splits
    random_state,         \* self.random_state
    pc,                   \* position inside split()
    labels_num,
    y_counts_per_group,
    y_distr,
    groups_and_y_counts,  \* the shuffled list of (group, counts)
    to_assign,            \* what the for loop of line 232 has still to visit
    y_counts_per_fold,
    groups_per_fold,
    yielded,              \* the (train, test) pairs yielded so far
    run,                  \* 1 or 2: which independent run of split() this is
    first,                \* what run 1 produced
    \* --- merge_y_and_others ---
    ys,
    indices,
    mpc,
    merged,
    \* --- main_loop (and the script of encoders.py), one outer fold ---
    ANALYSIS_TYPE,        \* which of the three kinds of run this is
    N_EPOCHS,
    EARLY_STOP_STEPS,
    grid,                 \* the number of hyperparameter combinations
    tpc,                  \* position inside the grid loop
    params,               \* index in the grid of the current combination
    epoch,                \* the epoch the loop of line 381 is at, 0 before it
    model,                \* the model in memory: its combination and epochs
    files,                \* the checkpoint store: path -> model saved there
    val_metrics,          \* the validation metrics of the last evaluation
    best_outer_metric_loss,
    best_model_name_outer_fold_loss,
    best_outer_metric_auc,
    best_model_name_outer_fold_auc,
    best_metrics_fold,    \* best_metrics_fold['loss']
    last_losses_val,
    stop,                 \* how the epoch loop of this combination ended
    fed,                  \* history: val_metrics['loss'] of each epoch of it
    saved,                \* history: the loss at each torch.save of it
    tested,               \* the model final evaluation ran on
    results,              \* the prediction, label and loss-history files written
    \* --- get_freer_gpu, one call per process ---
    tmp_gpu,              \* the content of tmp_gpu.txt
    lock_holder,          \* the process holding the flock, or NoHolder
    gpc,                  \* position of each process inside get_freer_gpu and free_gpu_info
    info_file,            \* what each process read from the file
    gpu_to_use,
    raised                \* the exception that left the call, or "none"

splitVars == <<y, groups, n_splits, random_state, pc, labels_num,
               y_counts_per_group, y_distr, groups_and_y_counts, to_assign,
               y_counts_per_fold, groups_per_fold, yielded, run, first>>
mergeVars == <<ys, indices, mpc, merged>>
trainVars == <<ANALYSIS_TYPE, N_EPOCHS, EARLY_STOP_STEPS, grid, tpc, params,
               epoch, model, files, val_metrics, best_outer_metric_loss,
               best_model_name_outer_fold_loss, best_outer_metric_auc,
               best_model_name_outer_fold_auc, best_metrics_fold,
               last_losses_val, stop, fed, saved, tested, results>>
gpuVars == <<tmp_gpu, lock_holder, gpc, info_file, gpu_to_use>>
vars == <<splitVars, mergeVars, trainVars, gpuVars, raised>>

\* ------------------------------------------------------------ arithmetic
SCALE == 1000      \* fixed-point unit of a float: 1 / SCALE
NaN == -1          \* 0.0 / 0 in numpy; every comparison with it is False
NoneFold == -1     \* best_fold = None, used as a dictionary key

RECURSIVE SumOver(_, _)
SumOver(f, S) ==
    IF S = {} THEN 0
    ELSE LET x == CHOOSE x \in S : TRUE IN f[x] + SumOver(f, S \ {x})

RECURSIVE IsqrtBits(_, _, _)
\* largest r with r * r <= n, found bit by bit from the step `bit` down
IsqrtBits(n, r, bit) ==
    IF bit = 0 THEN r
    ELSE IF (r + bit) * (r + bit) <= n THEN IsqrtBits(n, r + bit, bit \div 2)
         ELSE IsqrtBits(n, r, bit \div 2)

Isqrt(n) == IsqrtBits(n, 0, 16384)

MaxOf(S) == CHOOSE m \in S : \A x \in S : x <= m

\* np.std of the list [xs[i] / den : i \in DOMAIN xs]: NaN when den = 0
\* (then every xs[i] is 0 and 0.0 / 0 is nan), else
\* sqrt(mean(x^2) - mean(x)^2) = sqrt(n * sum(x^2) - sum(x)^2) / (n * den).
np_std(xs, den) ==
    IF den = 0 THEN NaN
    ELSE LET n  == Cardinality(DOMAIN xs)
             s1 == SumOver(xs, DOMAIN xs)
             s2 == SumOver([i \in DOMAIN xs |-> xs[i] * xs[i]], DOMAIN xs)
         IN Isqrt(((n * s2 - s1 * s1) * SCALE * SCALE) \div (n * n * den * den))

\* np.mean of a list of floats: nan as soon as one element is nan
np_mean(xs) ==
    IF \E i \in DOMAIN xs : xs[i] = NaN THEN NaN
    ELSE SumOver(xs, DOMAIN xs) \div Cardinality(DOMAIN xs)

\* a < b on floats
FloatLess(a, b) == a # NaN /\ b # NaN /\ a < b

VecAdd(a, b) == [l \in DOMAIN a |-> a[l] + b[l]]
VecSub(a, b) == [l \in DOMAIN a |-> a[l] - b[l]]

\* ------------------------------------------------- random.Random(seed)
RECURSIVE Fact(_)
Fact(n) == IF n <= 1 THEN 1 ELSE n * Fact(n - 1)

\* The value of randbelow(i + 1) that random.Random(seed).shuffle draws for
\* position i.  The Mersenne Twister is replaced by the factorial number
\* system: a function of the seed alone, and the seeds 0 .. n! - 1 produce
\* every sequence of draws, hence every order of a list of n items.
RandBelow(seed, i) == (seed \div Fact(i)) % (i + 1)

Swap(x, a, b) == [x EXCEPT ![a] = x[b], ![b] = x[a]]

RECURSIVE ShuffleFrom(_, _, _)
\* for i in reversed(range(1, len(x))): j = randbelow(i + 1); swap x[i], x[j]
ShuffleFrom(x, i, seed) ==
    IF i < 1 THEN x
    ELSE ShuffleFrom(Swap(x, i + 1, RandBelow(seed, i) + 1), i - 1, seed)

\* the shuffle drawing from the process-wide generator, whose state a
\* previous run has advanced
ShuffleSeedGlobal(seed, r) == seed + r - 1

\* the generator the shuffle of this run draws from
ShuffleSeed(seed, r) == seed

Shuffle(x, seed, r) == ShuffleFrom(x, Len(x) - 1, ShuffleSeed(seed, r))

\* ------------------------------------------------ StratifiedGroupKFold
Samples == 1 .. Len(groups)
AllGroups == {groups[i] : i \in Samples}                  \* set(groups)
Labels == 0 .. labels_num - 1                             \* range(labels_num)
Folds == 0 .. n_splits - 1                                \* range(self.n_splits)
FoldKeys == Folds \cup {NoneFold}

RECURSIVE FirstSeen(_, _)
\* the keys of y_counts_per_group in insertion order
FirstSeen(gs, seen) ==
    IF gs = <<>> THEN <<>>
    ELSE IF Head(gs) \in seen THEN FirstSeen(Tail(gs), seen)
         ELSE <<Head(gs)>> \o FirstSeen(Tail(gs), seen \cup {Head(gs)})

CountIn(g, label) == Cardinality({i \in Samples : groups[i] = g /\ y[i] = label})

\* key of the sort of line 232 is -np.std(counts); sorted() is stable
RECURSIVE InsertByStd(_, _)
InsertByStd(srt, e) ==
    IF srt = <<>> THEN <<e>>
    ELSE IF np_std(Head(srt)[2], 1) < np_std(e[2], 1)
         THEN <<e>> \o srt
         ELSE <<Head(srt)>> \o InsertByStd(Tail(srt), e)

RECURSIVE SortedByStd(_, _)
SortedByStd(lst, srt) ==
    IF lst = <<>> THEN srt
    ELSE SortedByStd(Tail(lst), InsertByStd(srt, Head(lst)))

\* eval_y_counts_per_fold: the score of the probe, and the table it leaves
eval_y_counts_per_fold(table, y_counts, fold) ==
    LET added == [table EXCEPT ![fold] = VecAdd(@, y_counts)]
        std_per_label ==
            [label \in Labels |->
                np_std([i \in Folds |-> added[i][label]], y_distr[label])]
    IN [eval  |-> np_mean(std_per_label),
        table |-> [added EXCEPT ![fold] = VecSub(@, y_counts)]]

\* the comparison of line 237 turned round
ImprovesMax(fold_eval, min_eval, best_fold) ==
    best_fold = NoneFold \/ FloatLess(min_eval, fold_eval)

\* if min_eval is None or fold_eval < min_eval
Improves(fold_eval, min_eval, best_fold) ==
    best_fold = NoneFold \/ FloatLess(fold_eval, min_eval)

RECURSIVE BestFold(_, _, _, _, _)
\* the loop of lines 235-239 from fold i on
BestFold(table, y_counts, i, best_fold, min_eval) ==
    IF i >= n_splits THEN [best_fold |-> best_fold, table |-> table]
    ELSE LET p == eval_y_counts_per_fold(table, y_counts, i)
         IN IF Improves(p.eval, min_eval, best_fold)
            THEN BestFold(p.table, y_counts, i + 1, i, p.eval)
            ELSE BestFold(p.table, y_counts, i + 1, best_fold, min_eval)

\* [i for i, g in enumerate(groups) if g in gset]
RECURSIVE IndicesIn(_, _)
IndicesIn(gset, i) ==
    IF i > Len(groups) THEN <<>>
    ELSE (IF groups[i] \in gset THEN <<i - 1>> ELSE <<>>) \o IndicesIn(gset, i + 1)

\* line 246
TestGroups(i) == groups_per_fold[i]

\* line 245 without the set difference
TrainGroupsAll(i) == AllGroups

\* line 245
TrainGroups(i) == AllGroups \ groups_per_fold[i]

\* lines 210-218
Count ==
    /\ pc = "start"
    /\ labels_num' = MaxOf({y[i] : i \in DOMAIN y}) + 1
    /\ y_counts_per_group' =
           [g \in AllGroups |-> [label \in 0 .. labels_num' - 1 |-> CountIn(g, label)]]
    /\ y_distr' = [label \in 0 .. labels_num' - 1 |->
                      Cardinality({i \in Samples : y[i] = label})]
    /\ y_counts_per_fold' = [f \in FoldKeys |-> [label \in 0 .. labels_num' - 1 |-> 0]]
    /\ groups_per_fold' = [f \in FoldKeys |-> {}]
    /\ pc' = "counted"
    /\ UNCHANGED <<y, groups, n_splits, random_state, groups_and_y_counts,
                   to_assign, yielded, run, first, mergeVars, trainVars, gpuVars, raised>>

\* lines 229-230
ShuffleGroups ==
    /\ pc = "counted"
    /\ LET items == [k \in 1 .. Cardinality(AllGroups) |->
                        LET g == FirstSeen(groups, {})[k]
                        IN <<g, y_counts_per_group[g]>>]
       IN groups_and_y_counts' = Shuffle(items, random_state, run)
    /\ pc' = "shuffled"
    /\ UNCHANGED <<y, groups, n_splits, random_state, labels_num,
                   y_counts_per_group, y_distr, to_assign, y_counts_per_fold,
                   groups_per_fold, yielded, run, first, mergeVars, trainVars, gpuVars, raised>>

\* line 232: sorted(...) is evaluated once, when the for loop starts
SortGroups ==
    /\ pc = "shuffled"
    /\ to_assign' = SortedByStd(groups_and_y_counts, <<>>)
    /\ pc' = "assign"
    /\ UNCHANGED <<y, groups, n_splits, random_state, labels_num,
                   y_counts_per_group, y_distr, groups_and_y_counts,
                   y_counts_per_fold, groups_per_fold, yielded, run, first,
                   mergeVars, trainVars, gpuVars, raised>>

\* one iteration of the loop of lines 232-241
AssignGroup ==
    /\ pc = "assign"
    /\ to_assign # <<>>
    /\ LET g        == Head(to_assign)[1]
           y_counts == Head(to_assign)[2]
           b        == BestFold(y_counts_per_fold, y_counts, 0, NoneFold, NaN)
       IN /\ y_counts_per_fold' =
                 [b.table EXCEPT ![b.best_fold] = VecAdd(@, y_counts)]
          /\ groups_per_fold' =
                 [groups_per_fold EXCEPT ![b.best_fold] = @ \cup {g}]
    /\ to_assign' = Tail(to_assign)
    /\ UNCHANGED <<y, groups, n_splits, random_state, pc, labels_num,
                   y_counts_per_group, y_distr, groups_and_y_counts, yielded,
                   run, first, mergeVars, trainVars, gpuVars, raised>>

\* line 243, reached when the loop of line 232 is exhausted
EndAssign ==
    /\ pc = "assign"
    /\ to_assign = <<>>
    /\ pc' = "yield"
    /\ UNCHANGED <<y, groups, n_splits, random_state, labels_num,
                   y_counts_per_group, y_distr, groups_and_y_counts, to_assign,
                   y_counts_per_fold, groups_per_fold, yielded, run, first,
                   mergeVars, trainVars, gpuVars, raised>>

\* one iteration of the loop of lines 244-251; i is the fold index
YieldFold ==
    /\ pc = "yield"
    /\ Len(yielded) < n_splits
    /\ LET i            == Len(yielded)
           train_groups == TrainGroups(i)
           test_groups  == TestGroups(i)
       IN yielded' = Append(yielded,
                        [train |-> IndicesIn(train_groups, 1),
                         test  |-> IndicesIn(test_groups, 1)])
    /\ UNCHANGED <<y, groups, n_splits, random_state, pc, labels_num,
                   y_counts_per_group, y_distr, groups_and_y_counts, to_assign,
                   y_counts_per_fold, groups_per_fold, run, first, mergeVars,
                   trainVars, gpuVars, raised>>

\* range(self.n_splits) is exhausted: the generator returns
EndSplit ==
    /\ pc = "yield"
    /\ Len(yielded) >= n_splits
    /\ pc' = "done"
    /\ UNCHANGED <<y, groups, n_splits, random_state, labels_num,
                   y_counts_per_group, y_distr, groups_and_y_counts, to_assign,
                   y_counts_per_fold, groups_per_fold, yielded, run, first,
                   mergeVars, trainVars, gpuVars, raised>>

\* a second, independent call of split() on the same arguments
SplitAgain ==
    /\ pc = "done"
    /\ run = 1
    /\ run' = 2
    /\ first' = [groups_per_fold |-> groups_per_fold, yielded |-> yielded]
    /\ pc' = "start"
    /\ labels_num' = 0
    /\ y_counts_per_group' = <<>>
    /\ y_distr' = <<>>
    /\ groups_and_y_counts' = <<>>
    /\ to_assign' = <<>>
    /\ y_counts_per_fold' = <<>>
    /\ groups_per_fold' = <<>>
    /\ yielded' = <<>>
    /\ UNCHANGED <<y, groups, n_splits, random_state, mergeVars, trainVars, gpuVars, raised>>

\* group ids are opaque dictionary keys: inputs are enumerated up to a
\* renaming of the groups (group k is the k-th group to occur)
GroupSeqs(n) ==
    {gs \in [1 .. n -> 1 .. n] :
        \A i \in 1 .. n : gs[i] <= 1 + MaxOf({0} \cup {gs[j] : j \in 1 .. i - 1})}

SplitWork(at) ==
    /\ pc = at
    /\ labels_num = 0
    /\ y_counts_per_group = <<>>
    /\ y_distr = <<>>
    /\ groups_and_y_counts = <<>>
    /\ to_assign = <<>>
    /\ y_counts_per_fold = <<>>
    /\ groups_per_fold = <<>>
    /\ yielded = <<>>
    /\ run = 1
    /\ first = <<>>

SplitIdle ==
    /\ y = <<>>
    /\ groups = <<>>
    /\ n_splits = 0
    /\ random_state = 0
    /\ SplitWork("idle")

\* ------------------------------------------------- merge_y_and_others
MaxAux == 2        \* auxiliary values are 0, 5, .. , 5 * MaxAux

ClassValues == 0 .. MaxLabel
AuxValues == {5 * a : a \in 0 .. MaxAux}

Min2(a, b) == IF a <= b THEN a ELSE b
Max2(a, b) == IF a >= b THEN a ELSE b

\* Strings are sequences of character codes: "0" is 48, " " 32, "[" 91, "]" 93.
RECURSIVE Digits(_)
Digits(n) == IF n < 10 THEN <<48 + n>> ELSE Digits(n \div 10) \o <<48 + (n % 10)>>

PadLeft(s, w) == [i \in 1 .. w - Len(s) |-> 32] \o s

\* a row that leaves the auxiliary column out
RowStrClassOnly(a, b) == <<91>> \o Digits(a) \o <<93>>

\* str() of one row of tmp, a numpy integer array of two elements: the
\* elements right-justified to the width of the widest, joined by a blank
RowStr(a, b) ==
    LET w == Max2(Len(Digits(a)), Len(Digits(b)))
    IN <<91>> \o PadLeft(Digits(a), w) \o <<32>> \o PadLeft(Digits(b), w) \o <<93>>

\* s < t in the order np.unique sorts strings by (code points, shorter first)
StrLess(s, t) ==
    \E k \in 1 .. Len(t) :
        /\ \A j \in 1 .. k - 1 : j <= Len(s) /\ s[j] = t[j]
        /\ (k > Len(s) \/ s[k] < t[k])

\* an encoder that numbers the classes 0, 2, 4, ..
fit_transform_by_twos(strs) ==
    LET classes == {strs[i] : i \in DOMAIN strs}
    IN [i \in DOMAIN strs |-> 2 * Cardinality({c \in classes : StrLess(c, strs[i])})]

\* LabelEncoder().fit_transform: classes_ is the sorted list of the distinct
\* values, and every value is replaced by its position in classes_
fit_transform(strs) ==
    LET classes == {strs[i] : i \in DOMAIN strs}
    IN [i \in DOMAIN strs |-> Cardinality({c \in classes : StrLess(c, strs[i])})]

\* a concatenation that accepts any two sizes
CatSizesAny(a, b) == TRUE

\* torch.cat along dim 1 of an (n, 1) and an (m, 1) tensor needs n = m
CatSizesMatch(a, b) == Len(a) = Len(b)

\* lines 124-126; a RuntimeError of torch.cat is the ShapeMismatch failure
MergeCall ==
    /\ mpc = "call"
    /\ IF CatSizesMatch(ys, indices)
       THEN /\ merged' = fit_transform(
                   [i \in 1 .. Min2(Len(ys), Len(indices)) |-> RowStr(ys[i], indices[i])])
            /\ mpc' = "returned"
            /\ raised' = raised
       ELSE /\ merged' = merged
            /\ mpc' = "raised"
            /\ raised' = "ShapeMismatch"
    /\ UNCHANGED <<ys, indices, splitVars, trainVars, gpuVars>>

\* main_loop, lines 233-238: the merged labels are the y of split.  The two
\* concatenations of lines 234-235 are temporaries of the call; n_splits is
\* N_OUT_SPLITS, a positive constant (line 223).
PassMerged ==
    /\ mpc = "returned"
    /\ pc = "idle"
    /\ y' = merged
    /\ groups' \in GroupSeqs(Len(merged))
    /\ n_splits' \in 1 .. MaxSplits
    /\ random_state' \in
           0 .. Fact(Cardinality({groups'[i] : i \in DOMAIN groups'})) - 1
    /\ pc' = "start"
    /\ mpc' = "passed"
    /\ ys' = <<>>
    /\ indices' = <<>>
    /\ UNCHANGED <<labels_num, y_counts_per_group, y_distr, groups_and_y_counts,
                   to_assign, y_counts_per_fold, groups_per_fold, yielded,
                   run, first, merged, trainVars, gpuVars, raised>>

\* ------------------------------------------------------------ main_loop
MaxEpochs == 5     \* N_EPOCHS is 1 .. MaxEpochs
MaxSteps == 2      \* EARLY_STOP_STEPS is 0 .. MaxSteps
MaxGrid == 2       \* the grid has 0 .. MaxGrid combinations

\* Losses and aucs are counted in tenths: 9 stands for a value of 0.9.
InTenths(v) == 10 * v
LossValues == {6, 7, 8, 9, InTenths(1000), InTenths(1000) + 1}
AucValues == {5, 9}

\* What runs: main_loop with the graph network (the branch of line 404),
\* main_loop with the boosted trees (line 413), or the script of encoders.py.
St == "spatiotemporal"
Tree == "flatten_corrs"
Encoder == "encoder"

\* a sentinel of 0
ZeroSentinel == InTenths(0)

\* the 1000 of lines 283, 375 and 379
Sentinel == InTenths(1000)

\* the -1000 of line 284
AucSentinel == 0 - InTenths(1000)

NoName == <<>>     \* best_model_name_outer_fold_loss = None
NoModel == <<>>
NoMetrics == <<>>  \* no evaluation has been made yet
NoLoss == "None"   \* return_metrics(..., loss_value=None)

\* one path for every combination
SharedName(metric, p) == <<metric, 0>>

\* lines 335-339: the path of the checkpoint of combination p for a metric;
\* the path names the metric and the hyperparameters of the combination
ModelName(metric, p) == <<metric, p>>

\* encoders.py, lines 320-323: inner_model_name
EncoderName(p) == <<"encoder", p>>

\* encoders.py, lines 358-360: the path of the best encoder of the fold
BestEncoderName == <<"best">>

\* a load that falls back on the model in memory
LoadOrKeep(store, name, current) ==
    IF name \in DOMAIN store THEN [ok |-> TRUE, model |-> store[name]]
    ELSE [ok |-> TRUE, model |-> current]

\* a load that hands back the model in memory
InMemory(store, name, current) ==
    [ok |-> name \in DOMAIN store, model |-> current]

\* torch.load / pickle.load(open(...)): None, or a path nothing was saved
\* to, raises and leaves the variable as it was
Load(store, name, current) ==
    IF name \in DOMAIN store THEN [ok |-> TRUE, model |-> store[name]]
    ELSE [ok |-> FALSE, model |-> current]

\* a window of zeros
NewWindowOfZeros(steps) == [i \in 1 .. steps |-> 0]

\* line 379
NewWindow(steps) == [i \in 1 .. steps |-> Sentinel]

\* the loss is above some value of the window
StopsOnAny(loss, window, steps) == \E i \in DOMAIN window : loss > window[i]

\* line 389: the loss is above every value of the window
StopsEarly(loss, window, steps) ==
    Cardinality({i \in DOMAIN window : loss > window[i]}) = steps

\* the window left as it was
KeepWindow(window, v) == window

\* line 392: append to a deque of maxlen EARLY_STOP_STEPS
PushWindow(window, v) == IF window = <<>> THEN <<>> ELSE Tail(window) \o <<v>>

\* a comparison with the sentinel instead of the best
IsBelowSentinel(loss, best) == loss < Sentinel

\* a comparison that also takes a loss equal to the best
IsBetterOrEqual(loss, best) == loss <= best

\* lines 394 and 397
IsBetter(loss, best) == loss < best

\* a comparison that never finds a new best
NeverHigher(auc, best) == FALSE

\* line 355
IsHigher(auc, best) == auc > best

\* lines 285-379: the next combination of the grid, its model and, for the
\* graph network, its trackers
NextParams ==
    /\ ANALYSIS_TYPE \in {St, Tree}
    /\ tpc = "grid"
    /\ params < grid
    /\ params' = params + 1
    /\ model' = [params |-> params + 1, epochs |-> 0, fits |-> 0]
    /\ epoch' = 0
    /\ stop' = "no"
    /\ fed' = <<>>
    /\ saved' = <<>>
    /\ IF ANALYSIS_TYPE = St
       THEN /\ best_metrics_fold' = Sentinel
            /\ last_losses_val' = NewWindow(EARLY_STOP_STEPS)
            /\ tpc' = "epoch"
       ELSE /\ UNCHANGED <<best_metrics_fold, last_losses_val>>
            /\ tpc' = "fit"
    /\ UNCHANGED <<ANALYSIS_TYPE, N_EPOCHS, EARLY_STOP_STEPS, grid, files,
                   val_metrics, best_outer_metric_loss,
                   best_model_name_outer_fold_loss, best_outer_metric_auc,
                   best_model_name_outer_fold_auc, tested, results,
                   splitVars, mergeVars, gpuVars, raised>>

\* lines 348-361: the one fit of the boosted trees, its validation and
\* the checkpoint by auc
FitStep ==
    /\ tpc = "fit"
    /\ \E auc \in AucValues :
         LET fitted == [model EXCEPT !.fits = @ + 1]
             path   == ModelName("auc", params)
         IN /\ model' = fitted
            /\ val_metrics' = [loss |-> NoLoss, auc |-> auc]
            /\ IF IsHigher(auc, best_outer_metric_auc)
               THEN /\ files' = (path :> fitted) @@ files
                    /\ best_outer_metric_auc' = auc
                    /\ best_model_name_outer_fold_auc' = path
               ELSE UNCHANGED <<files, best_outer_metric_auc,
                                best_model_name_outer_fold_auc>>
    /\ stop' = "fitted"
    /\ tpc' = "grid"
    /\ UNCHANGED <<ANALYSIS_TYPE, N_EPOCHS, EARLY_STOP_STEPS, grid, params,
                   epoch, best_outer_metric_loss,
                   best_model_name_outer_fold_loss, best_metrics_fold,
                   last_losses_val, fed, saved, tested, results,
                   splitVars, mergeVars, gpuVars, raised>>

\* one iteration of the loop of lines 381-399; loss and auc are those of
\* the val_metrics classifier_step returns
EpochStep ==
    /\ ANALYSIS_TYPE = St
    /\ tpc = "epoch"
    /\ epoch + 1 < N_EPOCHS
    /\ \E loss \in LossValues, auc \in AucValues :
         LET trained == [model EXCEPT !.epochs = @ + 1]
             path    == ModelName("loss", params)
         IN /\ epoch' = epoch + 1
            /\ model' = trained
            /\ val_metrics' = [loss |-> loss, auc |-> auc]
            /\ fed' = Append(fed, loss)
            /\ IF StopsEarly(loss, last_losses_val, EARLY_STOP_STEPS)
               THEN /\ stop' = "early"
                    /\ tpc' = "grid"
                    /\ UNCHANGED <<last_losses_val, best_metrics_fold, files, saved,
                                   best_outer_metric_loss,
                                   best_model_name_outer_fold_loss>>
               ELSE /\ last_losses_val' = PushWindow(last_losses_val, loss)
                    /\ UNCHANGED <<stop, tpc>>
                    /\ IF IsBetter(loss, best_metrics_fold)
                       THEN /\ best_metrics_fold' = loss
                            /\ files' = (path :> trained) @@ files
                            /\ saved' = Append(saved, loss)
                            /\ IF IsBetter(loss, best_outer_metric_loss)
                               THEN /\ best_outer_metric_loss' = loss
                                    /\ best_model_name_outer_fold_loss' = path
                               ELSE UNCHANGED <<best_outer_metric_loss,
                                                best_model_name_outer_fold_loss>>
                       ELSE UNCHANGED <<best_metrics_fold, files, saved,
                                        best_outer_metric_loss,
                                        best_model_name_outer_fold_loss>>
    /\ UNCHANGED <<ANALYSIS_TYPE, N_EPOCHS, EARLY_STOP_STEPS, grid, params,
                   best_outer_metric_auc, best_model_name_outer_fold_auc,
                   tested, results, splitVars, mergeVars, gpuVars, raised>>

\* range(1, N_EPOCHS) is exhausted; line 401 leaves the inner loop
EndEpochs ==
    /\ ANALYSIS_TYPE = St
    /\ tpc = "epoch"
    /\ epoch + 1 >= N_EPOCHS
    /\ stop' = "exhausted"
    /\ tpc' = "grid"
    /\ UNCHANGED <<ANALYSIS_TYPE, N_EPOCHS, EARLY_STOP_STEPS, grid, params,
                   epoch, model, files, val_metrics, best_outer_metric_loss,
                   best_model_name_outer_fold_loss, best_outer_metric_auc,
                   best_model_name_outer_fold_auc, best_metrics_fold,
                   last_losses_val, fed, saved, tested, results,
                   splitVars, mergeVars, gpuVars, raised>>

\* lines 403-428, after the grid: the model is loaded from the best path of
\* the loss (graph network) or of the auc (boosted trees), evaluated on the
\* outer test set, and the labels and predictions are saved; a failing
\* load is the NoCandidateModel failure
FinalTest ==
    /\ ANALYSIS_TYPE \in {St, Tree}
    /\ tpc = "grid"
    /\ params >= grid
    /\ tpc' = "done"
    /\ LET name   == IF ANALYSIS_TYPE = St THEN best_model_name_outer_fold_loss
                     ELSE best_model_name_outer_fold_auc
           loaded == Load(files, name, model)
       IN IF loaded.ok
          THEN /\ model' = loaded.model
               /\ tested' = model'
               /\ results' = results \cup {<<"labels", name>>,
                                           <<"predictions", name>>}
               /\ raised' = raised
          ELSE /\ raised' = "NoCandidateModel"
               /\ UNCHANGED <<model, tested, results>>
    /\ UNCHANGED <<ANALYSIS_TYPE, N_EPOCHS, EARLY_STOP_STEPS, grid, params,
                   epoch, files, val_metrics, best_outer_metric_loss,
                   best_model_name_outer_fold_loss, best_outer_metric_auc,
                   best_model_name_outer_fold_auc, best_metrics_fold,
                   last_losses_val, stop, fed, saved,
                   splitVars, mergeVars, gpuVars>>

\* ---------------------------------------------------------- encoders.py
\* lines 289-332: the next combination, its model and its tracker
EncoderParams ==
    /\ ANALYSIS_TYPE = Encoder
    /\ tpc = "grid"
    /\ params < grid
    /\ params' = params + 1
    /\ model' = [params |-> params + 1, epochs |-> 0, fits |-> 0]
    /\ best_metrics_fold' = Sentinel
    /\ epoch' = 0
    /\ stop' = "no"
    /\ fed' = <<>>
    /\ saved' = <<>>
    /\ tpc' = "epoch"
    /\ UNCHANGED <<ANALYSIS_TYPE, N_EPOCHS, EARLY_STOP_STEPS, grid, files,
                   val_metrics, best_outer_metric_loss,
                   best_model_name_outer_fold_loss, best_outer_metric_auc,
                   best_model_name_outer_fold_auc, last_losses_val, tested,
                   results, splitVars, mergeVars, gpuVars, raised>>

\* one iteration of the loop of lines 333-348; loss is val_loss
EncoderEpoch ==
    /\ ANALYSIS_TYPE = Encoder
    /\ tpc = "epoch"
    /\ epoch < N_EPOCHS
    /\ \E loss \in LossValues :
         LET trained == [model EXCEPT !.epochs = @ + 1]
             path    == EncoderName(params)
         IN /\ epoch' = epoch + 1
            /\ model' = trained
            /\ fed' = Append(fed, loss)
            /\ IF IsBetter(loss, best_metrics_fold)
               THEN /\ best_metrics_fold' = loss
                    /\ files' = (path :> trained) @@ files
                    /\ saved' = Append(saved, loss)
                    /\ IF IsBetter(loss, best_outer_metric_loss)
                       THEN /\ best_outer_metric_loss' = loss
                            /\ best_model_name_outer_fold_loss' = path
                       ELSE UNCHANGED <<best_outer_metric_loss,
                                        best_model_name_outer_fold_loss>>
               ELSE UNCHANGED <<best_metrics_fold, files, saved,
                                best_outer_metric_loss,
                                best_model_name_outer_fold_loss>>
    /\ UNCHANGED <<ANALYSIS_TYPE, N_EPOCHS, EARLY_STOP_STEPS, grid, tpc, params,
                   val_metrics, best_outer_metric_auc,
                   best_model_name_outer_fold_auc, last_losses_val, stop,
                   tested, results, splitVars, mergeVars, gpuVars, raised>>

\* range(N_EPOCHS) is exhausted; lines 349-350 save the loss histories
EncoderEnd ==
    /\ ANALYSIS_TYPE = Encoder
    /\ tpc = "epoch"
    /\ epoch >= N_EPOCHS
    /\ results' = results \cup {<<"losses", params>>}
    /\ stop' = "exhausted"
    /\ tpc' = "grid"
    /\ UNCHANGED <<ANALYSIS_TYPE, N_EPOCHS, EARLY_STOP_STEPS, grid, params,
                   epoch, model, files, val_metrics, best_outer_metric_loss,
                   best_model_name_outer_fold_loss, best_outer_metric_auc,
                   best_model_name_outer_fold_auc, best_metrics_fold,
                   last_losses_val, fed, saved, tested,
                   splitVars, mergeVars, gpuVars, raised>>

\* lines 353-360: the best model is loaded, evaluated on the outer test set
\* and saved as the best encoder of the fold
EncoderFinal ==
    /\ ANALYSIS_TYPE = Encoder
    /\ tpc = "grid"
    /\ params >= grid
    /\ tpc' = "done"
    /\ LET loaded == Load(files, best_model_name_outer_fold_loss, model)
       IN IF loaded.ok
          THEN /\ model' = loaded.model
               /\ tested' = model'
               /\ files' = (BestEncoderName :> model') @@ files
               /\ raised' = raised
          ELSE /\ raised' = "NoCandidateModel"
               /\ UNCHANGED <<model, tested, files>>
    /\ UNCHANGED <<ANALYSIS_TYPE, N_EPOCHS, EARLY_STOP_STEPS, grid, params,
                   epoch, val_metrics, best_outer_metric_loss,
                   best_model_name_outer_fold_loss, best_outer_metric_auc,
                   best_model_name_outer_fold_auc, best_metrics_fold,
                   last_losses_val, stop, fed, saved, results,
                   splitVars, mergeVars, gpuVars>>

TrainWork(at) ==
    /\ tpc = at
    /\ params = 0
    /\ epoch = 0
    /\ model = NoModel
    /\ files = <<>>
    /\ val_metrics = NoMetrics
    /\ best_outer_metric_loss = Sentinel
    /\ best_model_name_outer_fold_loss = NoName
    /\ best_outer_metric_auc = AucSentinel
    /\ best_model_name_outer_fold_auc = NoName
    /\ best_metrics_fold = Sentinel
    /\ last_losses_val = <<>>
    /\ stop = "no"
    /\ fed = <<>>
    /\ saved = <<>>
    /\ tested = NoModel
    /\ results = {}

TrainIdle ==
    /\ ANALYSIS_TYPE = St
    /\ N_EPOCHS = 1
    /\ EARLY_STOP_STEPS = 0
    /\ grid = 0
    /\ TrainWork("idle")

\* ------------------------------------------------------- get_freer_gpu
MaxProcs == 3      \* the processes that call get_freer_gpu are 1 .. MaxProcs

Procs == 1 .. MaxProcs
NoHolder == 0      \* nobody holds the lock on tmp_gpu.txt
Unread == "unread"
FileContents == {"", "0", "1", "server"}

\* a lock anybody gets at any time
CanLockAlways(holder) == TRUE

\* line 90: flock(LOCK_EX) returns once no other open file holds the lock
CanLock(holder) == holder = NoHolder

\* line 88 and 89: gpu_to_use = 0 and open('tmp_gpu.txt', 'r+')
GpuOpen(p) ==
    /\ gpc[p] = "call"
    /\ gpc' = [gpc EXCEPT ![p] = "opened"]
    /\ gpu_to_use' = [gpu_to_use EXCEPT ![p] = 0]
    /\ UNCHANGED <<tmp_gpu, lock_holder, info_file>>

\* line 90
GpuFlock(p) ==
    /\ gpc[p] = "opened"
    /\ CanLock(lock_holder)
    /\ lock_holder' = p
    /\ gpc' = [gpc EXCEPT ![p] = "locked"]
    /\ UNCHANGED <<tmp_gpu, info_file, gpu_to_use>>

\* line 92
GpuRead(p) ==
    /\ gpc[p] = "locked"
    /\ info_file' = [info_file EXCEPT ![p] = tmp_gpu]
    /\ gpc' = [gpc EXCEPT ![p] = "read"]
    /\ UNCHANGED <<tmp_gpu, lock_holder, gpu_to_use>>

\* lines 93-102: the three branches; the last one writes '0' over the file
GpuDecide(p) ==
    /\ gpc[p] = "read"
    /\ gpc' = [gpc EXCEPT ![p] = "decided"]
    /\ IF info_file[p] = "server"
       THEN UNCHANGED <<tmp_gpu, gpu_to_use>>
       ELSE IF info_file[p] = "0"
            THEN /\ gpu_to_use' = [gpu_to_use EXCEPT ![p] = 1]
                 /\ tmp_gpu' = tmp_gpu
            ELSE /\ tmp_gpu' = "0"
                 /\ gpu_to_use' = gpu_to_use
    /\ UNCHANGED <<lock_holder, info_file>>

\* lines 103-105: the lock is released and gpu_to_use returned
GpuUnlock(p) ==
    /\ gpc[p] = "decided"
    /\ lock_holder' = NoHolder
    /\ gpc' = [gpc EXCEPT ![p] = "done"]
    /\ UNCHANGED <<tmp_gpu, info_file, gpu_to_use>>

\* free_gpu_info, lines 109-110: called by a process whose get_freer_gpu
\* has returned
FreeOpen(p) ==
    /\ gpc[p] = "done"
    /\ gpc' = [gpc EXCEPT ![p] = "free_opened"]
    /\ UNCHANGED <<tmp_gpu, lock_holder, info_file, gpu_to_use>>

\* line 111
FreeFlock(p) ==
    /\ gpc[p] = "free_opened"
    /\ CanLock(lock_holder)
    /\ lock_holder' = p
    /\ gpc' = [gpc EXCEPT ![p] = "free_locked"]
    /\ UNCHANGED <<tmp_gpu, info_file, gpu_to_use>>

\* line 112
FreeRead(p) ==
    /\ gpc[p] = "free_locked"
    /\ info_file' = [info_file EXCEPT ![p] = tmp_gpu]
    /\ gpc' = [gpc EXCEPT ![p] = "free_read"]
    /\ UNCHANGED <<tmp_gpu, lock_holder, gpu_to_use>>

\* lines 113-118: the file is emptied unless it reads 'server'; the GPU the
\* caller was given plays no part
FreeDecide(p) ==
    /\ gpc[p] = "free_read"
    /\ tmp_gpu' = IF info_file[p] = "server" THEN tmp_gpu ELSE ""
    /\ gpc' = [gpc EXCEPT ![p] = "free_decided"]
    /\ UNCHANGED <<lock_holder, info_file, gpu_to_use>>

\* line 120
FreeUnlock(p) ==
    /\ gpc[p] = "free_decided"
    /\ lock_holder' = NoHolder
    /\ gpc' = [gpc EXCEPT ![p] = "freed"]
    /\ UNCHANGED <<tmp_gpu, info_file, gpu_to_use>>

GpuWork(at) ==
    /\ gpc = [p \in Procs |-> at]
    /\ lock_holder = NoHolder
    /\ info_file = [p \in Procs |-> Unread]
    /\ gpu_to_use = [p \in Procs |-> 0]

GpuIdle ==
    /\ tmp_gpu = ""
    /\ GpuWork("idle")

\* ----------------------------------------------------- specifications
MergeIdle ==
    /\ ys = <<>>
    /\ indices = <<>>
    /\ mpc = "idle"
    /\ merged = <<>>

Init ==
    /\ \E n \in 1 .. MaxN :
         /\ y \in [1 .. n -> 0 .. MaxLabel]
         /\ groups \in GroupSeqs(n)
    /\ n_splits \in 0 .. MaxSplits
    /\ random_state \in 0 .. Fact(Cardinality(AllGroups)) - 1
    /\ SplitWork("start")
    /\ MergeIdle
    /\ TrainIdle
    /\ GpuIdle
    /\ raised = "none"

Next ==
    \/ Count
    \/ ShuffleGroups
    \/ SortGroups
    \/ AssignGroup
    \/ EndAssign
    \/ YieldFold
    \/ EndSplit
    \/ SplitAgain

Spec == Init /\ [][Next]_vars

\* merge_y_and_others on every pair of sequences inside the bounds
InitMerge ==
    /\ \E n \in 1 .. MaxN : ys \in [1 .. n -> ClassValues]
    /\ \E m \in 1 .. MaxN : indices \in [1 .. m -> AuxValues]
    /\ mpc = "call"
    /\ merged = <<>>
    /\ SplitIdle
    /\ TrainIdle
    /\ GpuIdle
    /\ raised = "none"

NextMerge == MergeCall

SpecMerge == InitMerge /\ [][NextMerge]_vars

\* 8 samples in 4 groups of 2, each group of one label, 2 groups per label,
\* n_splits = 2, every order of the 4 groups after the shuffle
InitBalanced ==
    /\ groups = <<1, 1, 2, 2, 3, 3, 4, 4>>
    /\ \E zero \in SUBSET (1 .. 4) :
         /\ Cardinality(zero) = 2
         /\ y = [i \in 1 .. 8 |-> IF groups[i] \in zero THEN 0 ELSE 1]
    /\ n_splits = 2
    /\ random_state \in 0 .. Fact(4) - 1
    /\ SplitWork("start")
    /\ MergeIdle
    /\ TrainIdle
    /\ GpuIdle
    /\ raised = "none"

SpecBalanced == InitBalanced /\ [][Next]_vars

\* the state at line 285, for every configuration inside the bounds
InitTrain ==
    /\ ANALYSIS_TYPE \in {St, Tree, Encoder}
    /\ N_EPOCHS \in 1 .. MaxEpochs
    /\ IF ANALYSIS_TYPE = Encoder
       THEN /\ EARLY_STOP_STEPS = 0    \* encoders.py has no early stopping
            /\ grid = 1                \* encoders.py, lines 282-285
       ELSE /\ EARLY_STOP_STEPS \in 0 .. MaxSteps
            /\ grid \in 0 .. MaxGrid
    /\ TrainWork("grid")
    /\ SplitIdle
    /\ MergeIdle
    /\ GpuIdle
    /\ raised = "none"

NextTrain ==
    \/ NextParams
    \/ FitStep
    \/ EpochStep
    \/ EndEpochs
    \/ FinalTest
    \/ EncoderParams
    \/ EncoderEpoch
    \/ EncoderEnd
    \/ EncoderFinal

SpecTrain == InitTrain /\ [][NextTrain]_vars

\* MaxProcs processes call get_freer_gpu at the same time
InitGpu ==
    /\ tmp_gpu \in FileContents
    /\ GpuWork("call")
    /\ SplitIdle
    /\ MergeIdle
    /\ TrainIdle
    /\ raised = "none"

NextGpu ==
    \E p \in Procs :
        /\ \/ GpuOpen(p)
           \/ GpuFlock(p)
           \/ GpuRead(p)
           \/ GpuDecide(p)
           \/ GpuUnlock(p)
        /\ UNCHANGED <<splitVars, mergeVars, trainVars, raised>>

SpecGpu == InitGpu /\ [][NextGpu]_vars

\* MaxProcs processes each call get_freer_gpu and later free_gpu_info
NextGpuFree ==
    \E p \in Procs :
        /\ \/ GpuOpen(p)
           \/ GpuFlock(p)
           \/ GpuRead(p)
           \/ GpuDecide(p)
           \/ GpuUnlock(p)
           \/ FreeOpen(p)
           \/ FreeFlock(p)
           \/ FreeRead(p)
           \/ FreeDecide(p)
           \/ FreeUnlock(p)
        /\ UNCHANGED <<splitVars, mergeVars, trainVars, raised>>

SpecGpuFree == InitGpu /\ [][NextGpuFree]_vars

\* split called on the labels merge_y_and_others returns (main_loop, lines
\* 233-238), next to split called on labels of any kind
InitLabels == InitMerge \/ Init

NextLabels ==
    \/ MergeCall
    \/ PassMerged
    \/ Count
    \/ ShuffleGroups
    \/ SortGroups
    \/ AssignGroup
    \/ EndAssign
    \/ YieldFold
    \/ EndSplit

SpecLabels == InitLabels /\ [][NextLabels]_vars

\* ------------------------------------------------------------------ claims
Range(s) == {s[i] : i \in DOMAIN s}

\* the 0-based indices of the samples of group g
SamplesOf(g) == {i - 1 : i \in {j \in Samples : groups[j] = g}}

\* C1: split yields exactly n_splits (train, test) pairs, and in every pair
\* train and test are disjoint lists without repetition whose union is
\* the full index set 0 .. N - 1.
C1_PairsPartitionSamples ==
    /\ Len(yielded) <= n_splits
    /\ pc = "done" => Len(yielded) = n_splits
    /\ \A k \in 1 .. Len(yielded) :
         LET train == yielded[k].train
             test  == yielded[k].test
         IN /\ Range(train) \cap Range(test) = {}
            /\ Range(train) \cup Range(test) = 0 .. Len(groups) - 1
            /\ Cardinality(Range(train)) = Len(train)
            /\ Cardinality(Range(test)) = Len(test)

C1_Witness ==
    /\ pc = "done"
    /\ n_splits = 2
    /\ Len(yielded) = 2
    /\ yielded[1].test # <<>>
    /\ yielded[2].test # <<>>

\* the pairs in which some sample of group g is in the test role
TestPairsOf(g) == {k \in 1 .. Len(yielded) : Range(yielded[k].test) \cap SamplesOf(g) # {}}

\* C2: once split has returned, every group is in the test role in exactly
\* one yielded pair, and all its samples are in that pair's test list.
C2_GroupInOneTestSet ==
    pc = "done" =>
        \A g \in AllGroups :
            /\ Cardinality(TestPairsOf(g)) = 1
            /\ \A k \in TestPairsOf(g) : SamplesOf(g) \subseteq Range(yielded[k].test)

\* what holds of C2 in the code: the same, for n_splits >= 1
GroupInOneTestSetFromOneSplit == n_splits >= 1 => C2_GroupInOneTestSet

C4_EqualIffSamePair ==
    mpc = "returned" =>
        \A i, j \in DOMAIN merged :
            (merged[i] = merged[j]) <=> (ys[i] = ys[j] /\ indices[i] = indices[j])

C4_Witness ==
    /\ mpc = "returned"
    /\ \E i, j \in DOMAIN merged :
         /\ i # j
         /\ merged[i] = merged[j]
         /\ indices[i] = 10
    /\ \E i, j \in DOMAIN merged :
         /\ merged[i] # merged[j]
         /\ ys[i] = ys[j]

\* the groups of the given label that have a sample in the test list of pair k
TestGroupsOfLabel(k, label) ==
    {groups[i + 1] : i \in {j \in Range(yielded[k].test) : y[j + 1] = label}}

\* C7: in the balanced scenario (4 groups of 2 samples, 2 groups per label,
\* n_splits = 2) each of the two test sets holds exactly one group of label 0
\* and one group of label 1, whatever the order the shuffle leaves.
C7_OneGroupPerLabelAndFold ==
    pc = "done" =>
        /\ Len(yielded) = 2
        /\ \A k \in 1 .. 2 : \A label \in 0 .. 1 :
               Cardinality(TestGroupsOfLabel(k, label)) = 1

C7_Witness ==
    /\ pc = "done"
    /\ Len(groups) = 8
    /\ random_state = Fact(4) - 1
    /\ y[1] = y[3]
    /\ Len(yielded[1].test) = 4

\* C8: with n_splits < 2 no pair is yielded and the call ends in an
\* InvalidSplitCount error.
C8_SmallSplitCountFails ==
    n_splits < 2 =>
        /\ yielded = <<>>
        /\ pc = "done" => raised = "InvalidSplitCount"

\* C9: with fewer distinct groups than n_splits no pair is yielded and the
\* call ends in an InvalidSplitCount error.
C9_FewGroupsFails ==
    Cardinality(AllGroups) < n_splits =>
        /\ yielded = <<>>
        /\ pc = "done" => raised = "InvalidSplitCount"

\* C10: merge_y_and_others ends in ShapeMismatch, returning nothing, when the
\* two sequences differ in length, and returns one label per position
\* when they do not; its arguments are as they were.
C10_ShapeMismatchOrFullLength ==
    mpc # "call" =>
        IF Len(ys) # Len(indices)
        THEN mpc = "raised" /\ raised = "ShapeMismatch" /\ merged = <<>>
        ELSE mpc = "returned" /\ raised = "none" /\ Len(merged) = Len(ys)

C10_Witness ==
    /\ mpc = "raised"
    /\ raised = "ShapeMismatch"
    /\ Len(ys) = MaxN
    /\ Len(indices) < MaxN

\* the losses of the epochs of this combination follow the shape of C5 as far
\* as they go: no rise in epochs 2 .. steps, a rise in each of the epochs
\* steps + 1 .. 2 * steps
FallsThenRises(steps) ==
    \A i \in 2 .. Len(fed) :
        /\ i <= steps => fed[i] <= fed[i - 1]
        /\ (steps < i /\ i <= 2 * steps) => fed[i] > fed[i - 1]

\* C5 as stated: on such a sequence the epoch loop runs no epoch after
\* epoch 2 * EARLY_STOP_STEPS, and epoch 2 * EARLY_STOP_STEPS, when it is
\* reached, ends the loop by early stopping.
C5_StopsWithinTwoWindows ==
    FallsThenRises(EARLY_STOP_STEPS) =>
        /\ Len(fed) <= 2 * EARLY_STOP_STEPS
        /\ (fed # <<>> /\ Len(fed) = 2 * EARLY_STOP_STEPS) => stop = "early"

\* C5, amended: the same for EARLY_STOP_STEPS >= 1.
C5_StopsWithinTwoWindowsFromOneStep ==
    (EARLY_STOP_STEPS >= 1 /\ FallsThenRises(EARLY_STOP_STEPS)) =>
        /\ Len(fed) <= 2 * EARLY_STOP_STEPS
        /\ (fed # <<>> /\ Len(fed) = 2 * EARLY_STOP_STEPS) => stop = "early"

C5_Witness ==
    /\ EARLY_STOP_STEPS = 2
    /\ FallsThenRises(EARLY_STOP_STEPS)
    /\ Len(fed) = 4
    /\ fed[1] > fed[2]
    /\ fed[4] < fed[1]
    /\ stop = "early"

IsPrefix(s, t) == Len(s) <= Len(t) /\ \A i \in 1 .. Len(s) : s[i] = t[i]

\* the losses of fed that are below the sentinel and every loss before them
RECURSIVE RecordLows(_, _)
RecordLows(s, low) ==
    IF s = <<>> THEN <<>>
    ELSE IF Head(s) < low THEN <<Head(s)>> \o RecordLows(Tail(s), Head(s))
         ELSE RecordLows(Tail(s), low)

MinOf(S) == CHOOSE m \in S : \A x \in S : m <= x

Example == <<9, 7, 8, 6>>

\* fed with Example, the loop takes all four losses, records 0.6 as the best
\* and has saved at 0.9, 0.7 and 0.6
TracksExample ==
    /\ IsPrefix(fed, Example) => stop # "early"
    /\ fed = Example => (best_metrics_fold = 6 /\ saved = <<9, 7, 6>>)

\* the saves are the losses strictly below every earlier loss, and the
\* recorded best is the least loss
TracksRecordLows ==
    /\ saved = RecordLows(fed, Sentinel)
    /\ best_metrics_fold = MinOf(Range(fed) \cup {Sentinel})

\* C6 as stated: for every EARLY_STOP_STEPS >= 1 (and enough epochs for four
\* losses) the sequence 0.9, 0.7, 0.8, 0.6 is taken in full, leaves 0.6 as the
\* recorded best and causes three saves, at 0.9, 0.7 and 0.6; and in
\* general the saves are the record lows and the best is the minimum.
C6_BestAndSavesFromOneStep ==
    (EARLY_STOP_STEPS >= 1 /\ N_EPOCHS >= 5 /\ tpc \in {"epoch", "grid"}) =>
        (TracksExample /\ TracksRecordLows)

\* C6, amended: the example for EARLY_STOP_STEPS >= 2, the general rule
\* for EARLY_STOP_STEPS >= 1.
C6_BestAndSavesFromTwoSteps ==
    /\ (EARLY_STOP_STEPS >= 2 /\ N_EPOCHS >= 5) => TracksExample
    /\ EARLY_STOP_STEPS >= 1 => TracksRecordLows

C6_Witness ==
    /\ EARLY_STOP_STEPS = 2
    /\ fed = Example
    /\ saved = <<9, 7, 6>>
    /\ best_metrics_fold = 6
    /\ params = 2
    /\ best_outer_metric_loss = 6

\* the tracker, the sentinel and the best-model name of the metric the
\* final evaluation loads by
PrimaryBest ==
    IF ANALYSIS_TYPE = Tree THEN best_outer_metric_auc ELSE best_outer_metric_loss

PrimarySentinel ==
    IF ANALYSIS_TYPE = Tree THEN 0 - InTenths(1000) ELSE InTenths(1000)

PrimaryName ==
    IF ANALYSIS_TYPE = Tree THEN best_model_name_outer_fold_auc
    ELSE best_model_name_outer_fold_loss

\* the label and prediction files of the final evaluation
TestOutputs == {r \in results : r[1] \in {"labels", "predictions"}}

\* the grid is empty, or it has one combination of an epoch-trained model
\* and none of its validation losses is below 1000
NoValueBeatsSentinel ==
    \/ grid = 0
    \/ /\ ANALYSIS_TYPE # Tree
       /\ grid = 1
       /\ \A i \in DOMAIN fed : fed[i] >= InTenths(1000)

FailedWithoutOutput ==
    /\ raised = "NoCandidateModel"
    /\ tested = NoModel
    /\ TestOutputs = {}

\* C11: as long as the tracker of the primary metric holds its sentinel (no
\* combination has improved on it) the best-model name is unset; when the
\* grid loop ends in that state, and whenever the grid was empty or no
\* validation value was below the sentinel, the final evaluation fails with
\* NoCandidateModel: it evaluates no model and writes no label or prediction
\* file.
C11_NoImprovementNoCandidate ==
    /\ PrimaryBest = PrimarySentinel =>
           /\ PrimaryName = NoName
           /\ tpc = "done" => FailedWithoutOutput
    /\ (tpc = "done" /\ NoValueBeatsSentinel) => FailedWithoutOutput

C11_Witness ==
    /\ ANALYSIS_TYPE = St
    /\ grid = 2
    /\ params = 2
    /\ EARLY_STOP_STEPS >= 1
    /\ Len(fed) >= 2
    /\ best_outer_metric_loss = Sentinel
    /\ tpc = "done"
    /\ FailedWithoutOutput

\* the processes that have read the file and found it neither '0' nor
\* 'server': they observed "unreserved"
SawUnreserved == {p \in Procs : info_file[p] \notin {Unread, "0", "server"}}

\* C12: under every interleaving of the calls, at most one caller observes
\* "unreserved"; that caller keeps GPU 0 and leaves '0' in the file; once a
\* caller has observed the empty file, every other caller that reads the
\* file observes '0' and is given GPU 1.
C12_OneCallerSeesUnreserved ==
    /\ Cardinality(SawUnreserved) <= 1
    /\ \A p \in SawUnreserved :
          /\ gpu_to_use[p] = 0
          /\ gpc[p] \in {"decided", "done"} => tmp_gpu = "0"
          /\ info_file[p] = "" =>
                \A q \in Procs \ {p} :
                    /\ info_file[q] \in {Unread, "0"}
                    /\ gpc[q] = "done" => gpu_to_use[q] = 1

C12_Witness ==
    /\ \A p \in Procs : gpc[p] = "done"
    /\ \E p \in Procs :
          /\ info_file[p] = ""
          /\ gpu_to_use[p] = 0
          /\ \A q \in Procs \ {p} : info_file[q] = "0" /\ gpu_to_use[q] = 1

\* a step in which the model in memory was evaluated on the validation set
Evaluated ==
    \/ ANALYSIS_TYPE = Tree /\ tpc = "fit" /\ tpc' = "grid"
    \/ ANALYSIS_TYPE = St /\ Len(fed') = Len(fed) + 1

\* the step left the model in memory at the path of the metric for the
\* current combination and recorded that path as the best-model name
PersistedBy(metric) ==
    LET path == ModelName(metric, params)
    IN /\ path \in DOMAIN files'
       /\ files'[path] = model'
       /\ IF metric = "loss" THEN best_model_name_outer_fold_loss' = path
          ELSE best_model_name_outer_fold_auc' = path

LossPersisted ==
    val_metrics'.loss < best_outer_metric_loss => PersistedBy("loss")

AucPersisted ==
    val_metrics'.auc > best_outer_metric_auc => PersistedBy("auc")

EpochLoss == fed'[Len(fed')]

\* that loss is above every value the window held before the epoch
AboveWindow == \A i \in DOMAIN last_losses_val : EpochLoss > last_losses_val[i]

\* C14: the window of a combination starts with EARLY_STOP_STEPS values of
\* 1000 and always holds EARLY_STOP_STEPS values; an epoch ends the
\* training of the combination at once exactly when its validation loss
\* is above every value of the window, and otherwise its loss enters the
\* window and the oldest value leaves it; after a stop the grid goes on
\* with the next combination, or with the final evaluation after the last.
C14_StopsIffAboveWholeWindow ==
    [][ANALYSIS_TYPE = St =>
          /\ params' >= 1 => Len(last_losses_val') = EARLY_STOP_STEPS
          /\ params' # params =>
                \A i \in DOMAIN last_losses_val' :
                    last_losses_val'[i] = InTenths(1000)
          /\ Len(fed') = Len(fed) + 1 =>
                /\ stop' = "early" <=> AboveWindow
                /\ AboveWindow =>
                      /\ tpc' = "grid"
                      /\ last_losses_val' = last_losses_val
                /\ ~AboveWindow =>
                      /\ tpc' = "epoch"
                      /\ last_losses_val' = Tail(last_losses_val) \o <<EpochLoss>>
          /\ stop = "early" =>
                /\ tpc = "grid"
                /\ IF params < grid
                   THEN params' = params + 1 /\ tpc' = "epoch" /\ stop' = "no"
                   ELSE tpc' = "done"]_vars

C14_Witness ==
    /\ ANALYSIS_TYPE = St
    /\ EARLY_STOP_STEPS = 2
    /\ grid = 2
    /\ params = 1
    /\ stop = "early"
    /\ tpc = "grid"
    /\ Len(fed) = 3
    /\ last_losses_val = <<fed[1], fed[2]>>
    /\ fed[3] > fed[1]
    /\ fed[3] > fed[2]

\* C15: a combination of the graph network is trained for at most N_EPOCHS
\* epochs, and for exactly N_EPOCHS epochs when its epoch loop ended without
\* early stopping; a combination of the boosted trees is fitted exactly
\* once and runs no epoch.
C15_EpochsUpToNEpochs ==
    tpc \in {"epoch", "fit", "grid"} /\ params >= 1 =>
        /\ ANALYSIS_TYPE = St =>
              /\ epoch <= N_EPOCHS
              /\ model.epochs = epoch
              /\ stop = "exhausted" => epoch = N_EPOCHS
        /\ ANALYSIS_TYPE = Tree =>
              /\ epoch = 0
              /\ model.epochs = 0
              /\ model.fits = (IF stop = "fitted" THEN 1 ELSE 0)

\* what the loop of line 381 does: N_EPOCHS - 1 epochs without early stopping
EpochsOneShortOfNEpochs ==
    (ANALYSIS_TYPE = St /\ tpc \in {"epoch", "grid"} /\ params >= 1) =>
        /\ epoch <= N_EPOCHS - 1
        /\ stop = "exhausted" => epoch = N_EPOCHS - 1

\* the epoch loop or the fit of the current combination has ended
CombinationFinished == stop \in {"early", "exhausted", "fitted"}

ProbedScore(i) ==
    LET y_counts == Head(to_assign)[2]
        probed   == [f \in Folds |->
                        IF f = i THEN VecAdd(y_counts_per_fold[f], y_counts)
                        ELSE y_counts_per_fold[f]]
    IN np_mean([label \in Labels |->
                   np_std([f \in Folds |-> probed[f][label]], y_distr[label])])

\* the step that places the group at the head of to_assign puts it into
\* fold f alone and adds its counts to the counts of fold f alone: the
\* probes of the other folds have left no trace
CommittedTo(f) ==
    LET g        == Head(to_assign)[1]
        y_counts == Head(to_assign)[2]
    IN /\ groups_per_fold' = [groups_per_fold EXCEPT ![f] = @ \cup {g}]
       /\ y_counts_per_fold' =
              [y_counts_per_fold EXCEPT ![f] = VecAdd(@, y_counts)]

\* no fold has a lower score than f, and every fold before f has a higher one
LowestScoreFirst(f) ==
    /\ \A j \in Folds : ~FloatLess(ProbedScore(j), ProbedScore(f))
    /\ \A j \in Folds : j < f => FloatLess(ProbedScore(f), ProbedScore(j))

GroupPlaced == pc = "assign" /\ to_assign # <<>> /\ to_assign' = Tail(to_assign)

\* C17: every group, in the sorted order, is committed to one of the folds
\* 0 .. n_splits - 1, one whose probed score is the minimum over these
\* folds and the first of them when several share the minimum; the probes
\* leave the per-fold label counts as they were.
C17_GroupGoesToFirstMinimumFold ==
    [][GroupPlaced => \E f \in Folds : CommittedTo(f) /\ LowestScoreFirst(f)]_vars

\* the same, for n_splits >= 1
GroupGoesToFirstMinimumFoldFromOneSplit ==
    [][(GroupPlaced /\ n_splits >= 1) =>
           \E f \in Folds : CommittedTo(f) /\ LowestScoreFirst(f)]_vars

\* the checkpoint path of the loss for combination p
LossPath(p) == IF ANALYSIS_TYPE = Encoder THEN EncoderName(p) ELSE ModelName("loss", p)

C19_EarlyStopSkipsNoSave ==
    [][ANALYSIS_TYPE = St =>
          /\ (EARLY_STOP_STEPS >= 1 /\ Len(fed') = Len(fed) + 1
                                    /\ stop' = "early") =>
                 EpochLoss >= best_metrics_fold
          /\ EARLY_STOP_STEPS = 0 =>
                 /\ last_losses_val' = <<>>
                 /\ Len(fed') = Len(fed) + 1 =>
                        (Len(fed') = 1 /\ stop' = "early" /\ tpc' = "grid")
                 /\ files' = <<>>
                 /\ best_model_name_outer_fold_loss' = NoName]_vars

C19_Witness ==
    /\ ANALYSIS_TYPE = St
    /\ EARLY_STOP_STEPS = 2
    /\ stop = "early"
    /\ Len(fed) = 4
    /\ Len(saved) = 2
    /\ best_metrics_fold = 6
    /\ fed[4] = 9
    /\ ModelName("loss", params) \in DOMAIN files

\* C20: with EARLY_STOP_STEPS >= 1 and no validation loss above 1000, a
\* combination is not stopped early in its first EARLY_STOP_STEPS epochs,
\* and when its training has ended it has run at least the smaller of
\* EARLY_STOP_STEPS and the epochs the loop of line 381 offers.
C20_NoEarlyStopInFirstWindow ==
    (/\ ANALYSIS_TYPE = St
     /\ EARLY_STOP_STEPS >= 1
     /\ \A i \in DOMAIN fed : fed[i] <= InTenths(1000)) =>
        /\ stop = "early" => Len(fed) > EARLY_STOP_STEPS
        /\ stop \in {"early", "exhausted"} =>
               Len(fed) >= Min2(EARLY_STOP_STEPS, N_EPOCHS - 1)

C20_Witness ==
    /\ ANALYSIS_TYPE = St
    /\ EARLY_STOP_STEPS = 2
    /\ stop = "early"
    /\ fed = <<InTenths(1000), 8, 7, 9>>
    /\ last_losses_val = <<8, 7>>

\* the validation losses of the current combination whose epoch did not
\* stop the training early
KeptLosses ==
    {fed'[i] : i \in {j \in DOMAIN fed' : ~(stop' = "early" /\ j = Len(fed'))}}

\* C21: for an epoch-trained model, every epoch that does not stop the
\* training early leaves the outer best loss at the minimum of its old value
\* and the epoch's validation loss, and no other step changes it; so it
\* never increases and, starting from 1000, it is the minimum of 1000 and
\* the losses of all such epochs (stated outright for the first
\* combination, whose losses the history still holds).  The best-model name
\* is set exactly when the outer best loss is below 1000.
C21_OuterBestIsMinimumSoFar ==
    [][ANALYSIS_TYPE # Tree =>
          /\ best_outer_metric_loss' =
                 (IF Len(fed') = Len(fed) + 1 /\ stop' # "early"
                  THEN Min2(best_outer_metric_loss, EpochLoss)
                  ELSE best_outer_metric_loss)
          /\ best_outer_metric_loss' <= best_outer_metric_loss
          /\ params' <= 1 =>
                 best_outer_metric_loss' = MinOf(KeptLosses \cup {InTenths(1000)})
          /\ best_model_name_outer_fold_loss' # NoName <=>
                 best_outer_metric_loss' < InTenths(1000)]_vars

C21_Witness ==
    /\ ANALYSIS_TYPE = St
    /\ EARLY_STOP_STEPS = 1
    /\ params = 2
    /\ stop = "early"
    /\ fed = <<InTenths(1000), 7, 8>>
    /\ best_metrics_fold = 7
    /\ best_outer_metric_loss = 6
    /\ best_model_name_outer_fold_loss = ModelName("loss", 1)

\* the groups the loop of line 232 has committed to a fold
Committed ==
    IF pc = "assign" THEN AllGroups \ {to_assign[k][1] : k \in DOMAIN to_assign}
    ELSE AllGroups

\* the sum over the folds of the per-fold count of a label
CountOverFolds(label) ==
    SumOver([f \in Folds |-> y_counts_per_fold[f][label]], Folds)

\* C22: after each group is committed, for every label the per-fold counts
\* summed over the folds 0 .. n_splits - 1 equal the number of samples with
\* that label in the groups committed so far; once all groups are committed
\* the sum is y_distr[label] and every group is in the group set of exactly
\* one fold; the sizes of the n_splits test sets sum to the number of samples.
C22_LabelCountsConserved ==
    /\ pc \in {"assign", "yield", "done"} =>
           \A label \in Labels :
               CountOverFolds(label) =
                   Cardinality({i \in Samples : y[i] = label /\ groups[i] \in Committed})
    /\ pc \in {"yield", "done"} =>
           /\ \A label \in Labels : CountOverFolds(label) = y_distr[label]
           /\ \A g \in AllGroups :
                  Cardinality({f \in Folds : g \in groups_per_fold[f]}) = 1
    /\ pc = "done" =>
           SumOver([k \in DOMAIN yielded |-> Len(yielded[k].test)], DOMAIN yielded)
               = Len(y)

\* the same, for n_splits >= 1
LabelCountsConservedFromOneSplit == n_splits >= 1 => C22_LabelCountsConserved

\* a split of three samples with one group committed and two to come
LabelCountsConservedMidway ==
    /\ pc = "assign"
    /\ n_splits = 2
    /\ Len(to_assign) = 2
    /\ Cardinality(Committed) = 1
    /\ \E label \in Labels : CountOverFolds(label) > 0

\* process p has been given GPU 0 and has not yet called free_gpu_info
HoldsGpu0(p) == gpc[p] = "done" /\ gpu_to_use[p] = 0

\* C23: while the file does not read 'server', at most one process at a
\* time holds GPU 0, from the return of its get_freer_gpu with 0 to its own
\* call of free_gpu_info, whatever the other processes call in between.
C23_OneHolderOfGpu0 ==
    tmp_gpu # "server" => Cardinality({p \in Procs : HoldsGpu0(p)}) <= 1

\* every integer of 0 .. max(labels) occurs in labels
Dense(labels) == Range(labels) = 0 .. MaxOf(Range(labels))

\* the score the probe of the group at the head of to_assign returns for fold f
ProbeOf(f) == eval_y_counts_per_fold(y_counts_per_fold, Head(to_assign)[2], f).eval

Probing == pc = "assign" /\ to_assign # <<>>

\* C24: the labels merge_y_and_others returns are dense, as many as there
\* are distinct (class label, auxiliary) pairs; when split is called on them
\* labels_num is the number of distinct labels, y_distr[label] > 0 for every
\* label of range(labels_num) and no probe divides by zero; when split is
\* called on labels with a gap in 0 .. max(y), y_distr is 0 for a label of
\* range(labels_num) and every probe divides by that zero total.
C24_MergedLabelsAreDense ==
    /\ mpc = "returned" =>
           /\ Dense(merged)
           /\ MaxOf(Range(merged)) + 1 =
                  Cardinality({<<ys[i], indices[i]>> : i \in DOMAIN merged})
    /\ (mpc = "passed" /\ pc # "start") =>
           /\ y = merged
           /\ Dense(y)
           /\ labels_num = Cardinality(Range(y))
           /\ \A label \in Labels : y_distr[label] > 0
           /\ Probing => \A f \in Folds : ProbeOf(f) # NaN
    /\ (pc \notin {"idle", "start"} /\ ~Dense(y)) =>
           /\ \E label \in Labels : y_distr[label] = 0
           /\ Probing => \A f \in Folds : ProbeOf(f) = NaN

C24_Witness ==
    /\ mpc = "passed"
    /\ Probing
    /\ n_splits = 2
    /\ labels_num = 3
    /\ Len(to_assign) = 1
    /\ \E f \in Folds : ProbeOf(f) > 0

\* split on labels with a gap: the probe of a group returns nan
GapProbed ==
    /\ mpc = "idle"
    /\ Probing
    /\ n_splits = 2
    /\ ~Dense(y)
    /\ ProbeOf(0) = NaN
====
